---- MODULE Spec2Model ----
(***************************************************************************)
(* Model of first_classes.py: the Person / Adult / Child classes, their    *)
(* marriage, divorce, have_child_with and become_adult methods, attribute  *)
(* assignment of father / mother, and the cousin_grade query with its      *)
(* nested get_ascendants helper.                                           *)
(*                                                                         *)
(* Objects are numbered 1..n; Python's None is 0.  Names, jobs and the     *)
(* description() strings play no part in any transition and are left out.  *)
(***************************************************************************)
EXTENDS Integers, Sequences, FiniteSets, TLC

\* ---- bounds ----------------------------------------------------------
\* objects constructed by have_child_with / become_adult in one behaviour
MaxNew == 2
\* number of father/mother attribute assignments in one behaviour
MaxAssign == 2
\* number of Person objects in a cousin_grade query
NumPersons == 4
\* number of recorded father / mother links in the graph of a query
MaxLinks == 4

\* ---- program constants -------------------------------------------------
None == 0
\* the four adults constructed at module level
NumAdults == 4

Male == "m"
Female == "f"
Sex == {Male, Female}

Objs == 1..(NumAdults + MaxNew)
Persons == 1..NumPersons

VARIABLES
    kind,              \* class of each object: "Free" (not constructed), "Person", "Adult", "Child"
    sex,               \* Person.sex
    father,            \* Person.father
    mother,            \* Person.mother
    married_to,        \* Adult.married_to
    children_list,     \* Adult.children_list
    school,            \* Child.school (TRUE while set, FALSE once None)
    last,              \* outcome of the last method call: [op, raised, ret]
    nassign,           \* attribute assignments performed so far
    person1, person2,  \* arguments of the cousin_grade call in progress
    pc,                \* position in cousin_grade
    stack,             \* activation records of get_ascendants, innermost last
    ascendants1,       \* cousin_grade locals
    ascendants2,
    common_ascendants,
    grade,
    result,            \* value returned by cousin_grade(person1, person2)
    returned           \* completed cousin_grade calls, oldest first: [a, b, value]

familyVars == <<kind, sex, father, mother, married_to, children_list, school, last, nassign>>
queryVars == <<person1, person2, pc, stack, ascendants1, ascendants2, common_ascendants, grade, result, returned>>
vars == <<familyVars, queryVars>>

\* ======================================================================
\*  Person / Adult / Child
\* ======================================================================

Allocated == {o \in DOMAIN kind : kind[o] # "Free"}
Adults == {o \in DOMAIN kind : kind[o] = "Adult"}
Children == {o \in DOMAIN kind : kind[o] = "Child"}

\* the object the next constructor call yields
NewObj == CHOOSE o \in DOMAIN kind : kind[o] = "Free" /\ \A q \in DOMAIN kind : kind[q] = "Free" => o <= q
CanAllocate == \E o \in DOMAIN kind : kind[o] = "Free"

Outcome(op, raised, ret) == [op |-> op, raised |-> raised, ret |-> ret]

\* list.index(x): position of the first occurrence, 0 when absent (ValueError)
Index(list, x) ==
    IF \E i \in 1..Len(list) : list[i] = x
    THEN CHOOSE i \in 1..Len(list) : list[i] = x /\ \A j \in 1..(i-1) : list[j] # x
    ELSE 0

\* adult1..adult4 as constructed at module level: Ion (m), Elena (f), Bogdan (m), Ana (f)
InitSex(o) == IF o % 2 = 1 THEN Male ELSE Female

Init ==
    /\ kind = [o \in Objs |-> IF o <= NumAdults THEN "Adult" ELSE "Free"]
    /\ sex = [o \in Objs |-> InitSex(o)]
    /\ father = [o \in Objs |-> None]
    /\ mother = [o \in Objs |-> None]
    /\ married_to = [o \in Objs |-> None]
    /\ children_list = [o \in Objs |-> <<>>]
    /\ school = [o \in Objs |-> FALSE]
    /\ last = Outcome("init", "None", None)
    /\ nassign = 0
    /\ person1 = None /\ person2 = None
    /\ pc = "idle"
    /\ stack = <<>>
    /\ ascendants1 = {} /\ ascendants2 = {} /\ common_ascendants = {}
    /\ grade = 0 /\ result = 0 /\ returned = <<>>

\* marriage without the test of line 139 (either adult already married)
marriage_unchecked(self, other_person) ==
    /\ self \in Adults /\ other_person \in Adults
    /\ IF sex[self] = sex[other_person]
       THEN /\ last' = Outcome("marriage", "ValueError", None)
            /\ UNCHANGED married_to
       ELSE /\ married_to' = [married_to EXCEPT ![self] = other_person, ![other_person] = self]
            /\ last' = Outcome("marriage", "None", None)
    /\ UNCHANGED <<kind, sex, father, mother, children_list, school, nassign, queryVars>>

\* Adult.marriage(self, other_person), other_person an Adult as documented
marriage(self, other_person) ==
    /\ self \in Adults /\ other_person \in Adults
    /\ IF married_to[self] # None \/ married_to[other_person] # None
       THEN /\ last' = Outcome("marriage", "ValueError", None)
            /\ UNCHANGED married_to
       ELSE IF sex[self] = sex[other_person]
       THEN /\ last' = Outcome("marriage", "ValueError", None)
            /\ UNCHANGED married_to
       ELSE /\ married_to' = [married_to EXCEPT ![self] = other_person, ![other_person] = self]
            /\ last' = Outcome("marriage", "None", None)
    /\ UNCHANGED <<kind, sex, father, mother, children_list, school, nassign, queryVars>>

\* Adult.divorce(self, other_person), other_person an Adult as documented
divorce(self, other_person) ==
    /\ self \in Adults /\ other_person \in Adults
    /\ IF married_to[self] # None /\ married_to[self] = other_person
       THEN married_to' = [married_to EXCEPT ![self] = None, ![other_person] = None]
       ELSE UNCHANGED married_to
    /\ last' = Outcome("divorce", "None", None)
    /\ UNCHANGED <<kind, sex, father, mother, children_list, school, nassign, queryVars>>

\* Adult.have_child_with(self, other_person, child_name, sex_child, school),
\* other_person an Adult as documented
have_child_with(self, other_person, sex_child) ==
    /\ self \in Adults /\ other_person \in Adults
    /\ IF sex[self] = sex[other_person]
       THEN /\ last' = Outcome("have_child_with", "ValueError", None)
            /\ UNCHANGED <<kind, sex, father, mother, children_list, school>>
       ELSE /\ CanAllocate
            /\ LET child == NewObj IN
               \* Child(child_name, sex_child, school, self, other_person):
               \* the fourth parameter is mother, the fifth is father
               /\ kind' = [kind EXCEPT ![child] = "Child"]
               /\ sex' = [sex EXCEPT ![child] = sex_child]
               /\ mother' = [mother EXCEPT ![child] = self]
               /\ father' = [father EXCEPT ![child] = other_person]
               /\ school' = [school EXCEPT ![child] = TRUE]
               /\ children_list' = [children_list EXCEPT
                                      ![self] = Append(@, child),
                                      ![other_person] = Append(@, child)]
               /\ last' = Outcome("have_child_with", "None", child)
    /\ UNCHANGED <<married_to, nassign, queryVars>>

\* Child.become_adult(self, job); self.mother and self.father are the Adults
\* given to Child.__init__
become_adult(self) ==
    /\ self \in Children
    /\ CanAllocate
    /\ LET adult == NewObj
           m == mother[self]
           f == father[self]
       IN IF Index(children_list[m], self) = 0 \/ Index(children_list[f], self) = 0
          THEN \* list.index raises ValueError: self is no longer in the list
               /\ last' = Outcome("become_adult", "ValueError", None)
               /\ UNCHANGED <<kind, sex, father, mother, married_to, children_list, school>>
          ELSE \* Adult(self.name, self.sex, job): Person.__init__ sets mother and father to None
               /\ kind' = [kind EXCEPT ![adult] = "Adult"]
               /\ sex' = [sex EXCEPT ![adult] = sex[self]]
               /\ mother' = [mother EXCEPT ![adult] = None]
               /\ father' = [father EXCEPT ![adult] = None]
               /\ married_to' = [married_to EXCEPT ![adult] = None]
               /\ LET cl1 == [children_list EXCEPT ![adult] = <<>>]
                      cl2 == [cl1 EXCEPT ![m] = [@ EXCEPT ![Index(children_list[m], self)] = adult]]
                  IN children_list' = [cl2 EXCEPT ![f] = [@ EXCEPT ![Index(children_list[f], self)] = adult]]
               /\ school' = [school EXCEPT ![self] = FALSE]
               /\ last' = Outcome("become_adult", "None", adult)
    /\ UNCHANGED <<nassign, queryVars>>

\* p.father = q   (attribute assignment, as in "adult1.father = parent1")
set_father(p, q) ==
    /\ p \in Allocated /\ q \in Allocated
    /\ nassign < MaxAssign
    /\ father' = [father EXCEPT ![p] = q]
    /\ nassign' = nassign + 1
    /\ last' = Outcome("set_father", "None", None)
    /\ UNCHANGED <<kind, sex, mother, married_to, children_list, school, queryVars>>

\* p.mother = q   (attribute assignment, as in "adult1.mother = parent2")
set_mother(p, q) ==
    /\ p \in Allocated /\ q \in Allocated
    /\ nassign < MaxAssign
    /\ mother' = [mother EXCEPT ![p] = q]
    /\ nassign' = nassign + 1
    /\ last' = Outcome("set_mother", "None", None)
    /\ UNCHANGED <<kind, sex, father, married_to, children_list, school, queryVars>>

Next ==
    \/ \E a, b \in Objs : marriage(a, b)
    \/ \E a, b \in Objs : divorce(a, b)
    \/ \E a, b \in Objs, s \in Sex : have_child_with(a, b, s)
    \/ \E c \in Objs : become_adult(c)

Spec == Init /\ [][Next]_vars

\* attribute assignments on the objects constructed at module level
NextAttach ==
    \/ \E p, q \in Objs : set_father(p, q)
    \/ \E p, q \in Objs : set_mother(p, q)

SpecAttach == Init /\ [][NextAttach]_vars

\* ======================================================================
\*  cousin_grade(person1, person2)
\* ======================================================================

\* Python truthiness of an Optional[Person]
Truthy(x) == x # None

\* "father or mother"
Or(x, y) == IF Truthy(x) THEN x ELSE y

\* line 52: None if (not father and not mother) else father or mother
NextCurrent(f, m) == IF ~Truthy(f) /\ ~Truthy(m) THEN None ELSE Or(f, m)

\* lines 66-71 without the mother branch of lines 70-71
NewCommon_fathers_only(S) == {father[x] : x \in {y \in S : Truthy(father[y])}}

\* lines 66-71: the recorded fathers and mothers of the members of a frontier
NewCommon(S) ==
    {father[x] : x \in {y \in S : Truthy(father[y])}} \cup
    {mother[x] : x \in {y \in S : Truthy(mother[y])}}

\* line 59 with | in place of &
Common_union(a1, a2) == a1 \cup a2

\* line 59 with the second operand dropped
Common_first_only(a1, a2) == a1

\* line 59: ascendants1 & ascendants2
Common(a1, a2) == a1 \cap a2

\* activation record of get_ascendants, at its first statement
Frame(person) ==
    [person |-> person, ascendants |-> {}, current_person |-> person, pc |-> "while"]

Top == stack[Len(stack)]
SetTop(fr) == [stack EXCEPT ![Len(stack)] = fr]

\* a parent graph over Persons in which every recorded parent of p is numbered above p:
\* every acyclic graph is such a graph after renumbering
ParentGraphs ==
    {g \in [Persons -> Persons \cup {None}] : \A p \in Persons : g[p] = None \/ g[p] > p}

Links(g) == Cardinality({p \in Persons : g[p] # None})

\* Person objects with father / mother attached, and the arguments of the query.
\* Persons numbered below both arguments are ancestors of neither and take no part
\* in the query, so the graph is numbered from the first argument; the second call
\* of the pair covers the other order of the arguments.
InitQuery ==
    /\ kind = [o \in Persons |-> "Person"]
    /\ sex = [o \in Persons |-> InitSex(o)]
    /\ father \in ParentGraphs
    /\ mother \in ParentGraphs
    /\ Links(father) + Links(mother) <= MaxLinks
    /\ married_to = [o \in Persons |-> None]
    /\ children_list = [o \in Persons |-> <<>>]
    /\ school = [o \in Persons |-> FALSE]
    /\ last = Outcome("init", "None", None)
    /\ nassign = 0
    /\ person1 = 1 /\ person2 \in Persons
    /\ pc = "l56"
    /\ stack = <<>>
    /\ ascendants1 = {} /\ ascendants2 = {} /\ common_ascendants = {}
    /\ grade = 0 /\ result = 0 /\ returned = <<>>

\* line 56: ascendants1 = get_ascendants(person1)
cg_call1 ==
    /\ pc = "l56"
    /\ stack' = <<Frame(person1)>>
    /\ pc' = "l56_in"
    /\ UNCHANGED <<familyVars, person1, person2, ascendants1, ascendants2, common_ascendants, grade, result, returned>>

\* line 57: ascendants2 = get_ascendants(person2)
cg_call2 ==
    /\ pc = "l57"
    /\ stack' = <<Frame(person2)>>
    /\ pc' = "l57_in"
    /\ UNCHANGED <<familyVars, person1, person2, ascendants1, ascendants2, common_ascendants, grade, result, returned>>

\* line 43: while current_person  (loop entered)
ga_while ==
    /\ stack # <<>> /\ Top.pc = "while"
    /\ Truthy(Top.current_person)
    /\ stack' = SetTop([Top EXCEPT !.pc = "father"])
    /\ UNCHANGED <<familyVars, person1, person2, pc, ascendants1, ascendants2, common_ascendants, grade, result, returned>>

\* lines 44-48: if father: ascendants.add(father); ascendants.update(get_ascendants(father))
ga_father ==
    /\ stack # <<>> /\ Top.pc = "father"
    /\ LET f == father[Top.current_person] IN
       IF Truthy(f)
       THEN stack' = Append(SetTop([Top EXCEPT !.ascendants = @ \cup {f}, !.pc = "father_ret"]), Frame(f))
       ELSE stack' = SetTop([Top EXCEPT !.pc = "mother"])
    /\ UNCHANGED <<familyVars, person1, person2, pc, ascendants1, ascendants2, common_ascendants, grade, result, returned>>

\* lines 49-51 without the recursive call of line 51
ga_mother_no_recursion ==
    /\ stack # <<>> /\ stack[Len(stack)].pc = "mother"
    /\ LET top == stack[Len(stack)]
           m == mother[top.current_person]
       IN IF Truthy(m)
          THEN stack' = [stack EXCEPT ![Len(stack)] = [top EXCEPT !.ascendants = @ \cup {m}, !.pc = "next"]]
          ELSE stack' = [stack EXCEPT ![Len(stack)] = [top EXCEPT !.pc = "next"]]
    /\ UNCHANGED <<familyVars, person1, person2, pc, ascendants1, ascendants2, common_ascendants, grade, result, returned>>

\* lines 45, 49-51: if mother: ascendants.add(mother); ascendants.update(get_ascendants(mother))
ga_mother ==
    /\ stack # <<>> /\ Top.pc = "mother"
    /\ LET m == mother[Top.current_person] IN
       IF Truthy(m)
       THEN stack' = Append(SetTop([Top EXCEPT !.ascendants = @ \cup {m}, !.pc = "mother_ret"]), Frame(m))
       ELSE stack' = SetTop([Top EXCEPT !.pc = "next"])
    /\ UNCHANGED <<familyVars, person1, person2, pc, ascendants1, ascendants2, common_ascendants, grade, result, returned>>

\* line 52 left out: current_person is never advanced
ga_next_no_advance ==
    /\ stack # <<>> /\ stack[Len(stack)].pc = "next"
    /\ stack' = [stack EXCEPT ![Len(stack)] = [@ EXCEPT !.pc = "while"]]
    /\ UNCHANGED <<familyVars, person1, person2, pc, ascendants1, ascendants2, common_ascendants, grade, result, returned>>

\* line 52: current_person = None if (not father and not mother) else father or mother
ga_next ==
    /\ stack # <<>> /\ Top.pc = "next"
    /\ stack' = SetTop([Top EXCEPT
                          !.current_person = NextCurrent(father[Top.current_person], mother[Top.current_person]),
                          !.pc = "while"])
    /\ UNCHANGED <<familyVars, person1, person2, pc, ascendants1, ascendants2, common_ascendants, grade, result, returned>>

\* lines 43, 54: the loop ends and get_ascendants returns to a recursive call site (line 48 or 51)
ga_return_inner ==
    /\ Len(stack) > 1 /\ Top.pc = "while"
    /\ ~Truthy(Top.current_person)
    /\ LET caller == stack[Len(stack) - 1]
           rest == SubSeq(stack, 1, Len(stack) - 2)
       IN stack' = Append(rest, [caller EXCEPT
                                   !.ascendants = @ \cup Top.ascendants,
                                   !.pc = IF caller.pc = "father_ret" THEN "mother" ELSE "next"])
    /\ UNCHANGED <<familyVars, person1, person2, pc, ascendants1, ascendants2, common_ascendants, grade, result, returned>>

\* lines 43, 54: the loop ends and get_ascendants returns to cousin_grade (line 56 or 57)
ga_return_outer ==
    /\ Len(stack) = 1 /\ Top.pc = "while"
    /\ ~Truthy(Top.current_person)
    /\ stack' = <<>>
    /\ IF pc = "l56_in"
       THEN ascendants1' = Top.ascendants /\ pc' = "l57" /\ UNCHANGED ascendants2
       ELSE ascendants2' = Top.ascendants /\ pc' = "l59" /\ UNCHANGED ascendants1
    /\ UNCHANGED <<familyVars, person1, person2, common_ascendants, grade, result, returned>>

\* lines 59-63: the common ascendants; return -1 when there are none, else grade = 0
cg_common ==
    /\ pc = "l59"
    /\ common_ascendants' = Common(ascendants1, ascendants2)
    /\ IF Cardinality(Common(ascendants1, ascendants2)) = 0
       THEN /\ result' = -1
            /\ returned' = Append(returned, [a |-> person1, b |-> person2, value |-> -1])
            /\ pc' = "done"
            /\ UNCHANGED grade
       ELSE /\ grade' = 0
            /\ pc' = "l64"
            /\ UNCHANGED <<result, returned>>
    /\ UNCHANGED <<familyVars, person1, person2, stack, ascendants1, ascendants2>>

\* lines 64-73: one iteration of "while common_ascendants"
cg_climb ==
    /\ pc = "l64"
    /\ common_ascendants # {}
    /\ grade' = grade + 1
    /\ common_ascendants' = NewCommon(common_ascendants)
    /\ UNCHANGED <<familyVars, person1, person2, pc, stack, ascendants1, ascendants2, result, returned>>

\* line 75 returning one less than the number of iterations
cg_return_off_by_one ==
    /\ pc = "l64"
    /\ common_ascendants = {}
    /\ result' = grade - 1
    /\ returned' = Append(returned, [a |-> person1, b |-> person2, value |-> grade - 1])
    /\ pc' = "done"
    /\ UNCHANGED <<familyVars, person1, person2, stack, ascendants1, ascendants2, common_ascendants, grade>>

\* lines 64, 75: the loop ends, return grade
cg_return ==
    /\ pc = "l64"
    /\ common_ascendants = {}
    /\ result' = grade
    /\ returned' = Append(returned, [a |-> person1, b |-> person2, value |-> grade])
    /\ pc' = "done"
    /\ UNCHANGED <<familyVars, person1, person2, stack, ascendants1, ascendants2, common_ascendants, grade>>

\* the caller asks again with the two arguments exchanged
cg_swapped_call ==
    /\ pc = "done" /\ Len(returned) = 1
    /\ person1' = person2 /\ person2' = person1
    /\ pc' = "l56"
    /\ ascendants1' = {} /\ ascendants2' = {} /\ common_ascendants' = {}
    /\ grade' = 0 /\ result' = 0
    /\ UNCHANGED <<familyVars, stack, returned>>

NextQuery ==
    \/ cg_call1
    \/ cg_call2
    \/ ga_while
    \/ ga_father
    \/ ga_mother
    \/ ga_next
    \/ ga_return_inner
    \/ ga_return_outer
    \/ cg_common
    \/ cg_climb
    \/ cg_return
    \/ cg_swapped_call

SpecQuery == InitQuery /\ [][NextQuery]_vars

\* the interpreter keeps executing the single thread of the query
SpecQueryFair == SpecQuery /\ WF_vars(NextQuery)

\* ======================================================================
\*  Properties
\* ======================================================================

\* the recorded parents of a person
Parents(n) == {father[n], mother[n]} \ {None}

ParentsOfAll(S) == UNION {Parents(x) : x \in S}

RECURSIVE UpwardClosure(_)
UpwardClosure(S) ==
    IF ParentsOfAll(S) \subseteq S THEN S ELSE UpwardClosure(S \cup ParentsOfAll(S))

\* the persons reachable from n by one or more father / mother edges
Ancestors(n) == UpwardClosure(Parents(n))

CommonAncestors == Ancestors(person1) \cap Ancestors(person2)

\* the frontier after k replacements, starting from S
RECURSIVE Frontier(_, _)
Frontier(S, k) == IF k = 0 THEN S ELSE ParentsOfAll(Frontier(S, k - 1))

Returned == pc = "done"

\* C1: cousin_grade(a, b) returns -1 exactly when a and b have no ancestor in common.
C1_MinusOneIffNoCommonAncestor ==
    Returned => (result = -1 <=> CommonAncestors = {})

\* C1 witness: both ancestor sets are non-empty, they are disjoint, and -1 was returned
C1_Witness ==
    /\ Returned /\ result = -1
    /\ Ancestors(person1) # {} /\ Ancestors(person2) # {}

\* C2 as stated: when every common ancestor has no recorded parents, cousin_grade returns 0.
C2_Original ==
    (Returned /\ CommonAncestors # {} /\ \A c \in CommonAncestors : Parents(c) = {})
        => result = 0

\* C2 as amended: when the common-ancestor set is non-empty and every common ancestor
\* has no recorded parents, cousin_grade returns 1.
C2_TopmostCommonAncestorsGiveOne ==
    (Returned /\ CommonAncestors # {} /\ \A c \in CommonAncestors : Parents(c) = {})
        => result = 1

\* C2 witness: full siblings whose father and mother have no recorded parents
C2_Witness ==
    /\ Returned /\ result = 1
    /\ person1 # person2
    /\ father[person1] # None /\ father[person1] = father[person2]
    /\ mother[person1] # None /\ mother[person1] = mother[person2]
    /\ father[person1] # mother[person1]
    /\ Parents(father[person1]) = {} /\ Parents(mother[person1]) = {}

\* C3: with a non-empty common-ancestor set, cousin_grade returns the number k of
\* frontier replacements performed: the k-th replacement is the first empty one.
C3_GradeIsNumberOfClimbIterations ==
    (Returned /\ CommonAncestors # {}) =>
        /\ result >= 1
        /\ Frontier(CommonAncestors, result) = {}
        /\ \A k \in 0..(result - 1) : Frontier(CommonAncestors, k) # {}

\* C3 witness: a climb of more than one iteration has returned
C3_Witness == Returned /\ result >= 2

\* a get_ascendants activation that has left its loop and is about to return
Finished(fr) == fr.pc = "while" /\ fr.current_person = None

\* C4: get_ascendants(n) returns exactly the persons reachable from n by one or more
\* father / mother edges, never n itself, and nothing when n has no recorded parent.
C4_AscendantsAreTheAncestors ==
    /\ \A i \in 1..Len(stack) :
          Finished(stack[i]) =>
             /\ stack[i].ascendants = Ancestors(stack[i].person)
             /\ stack[i].person \notin stack[i].ascendants
             /\ (Parents(stack[i].person) = {} => stack[i].ascendants = {})
    /\ pc \in {"l57", "l57_in", "l59"} => ascendants1 = Ancestors(person1)
    /\ pc = "l59" => ascendants2 = Ancestors(person2)

\* C4 witness: get_ascendants has returned to cousin_grade for a person whose father
\* and mother are different persons sharing an ancestor (diamond)
C4_Witness ==
    /\ pc = "l57"
    /\ father[person1] # None /\ mother[person1] # None
    /\ father[person1] # mother[person1]
    /\ Ancestors(father[person1]) \cap Ancestors(mother[person1]) # {}
    /\ Cardinality(ascendants1) = 3

\* C5: the parent graph is acyclic in every reachable state (no person is its own ancestor).
C5_ParentGraphAcyclic == \A p \in Allocated : p \notin Ancestors(p)

\* C6: the person returned by become_adult is the child itself, with the father and
\* mother the child had before the call.
C6_BecomeAdultKeepsParents ==
    [][\A c \in Objs :
          (become_adult(c) /\ last'.raised = "None") =>
             /\ last'.ret = c
             /\ father'[last'.ret] = father[c]
             /\ mother'[last'.ret] = mother[c]]_vars

\* C7: on an acyclic graph cousin_grade(a, b) and cousin_grade(b, a) both return:
\* the ancestor collections and the climb of each call finish.
C7_CousinGradeTerminates == <>(Len(returned) = 2)

\* C7 witness: both calls have returned after going through the ancestor collection
\* and more than one iteration of the climb
C7_Witness == Returned /\ Len(returned) = 2 /\ returned[1].value >= 2 /\ result >= 2

\* C8: cousin_grade(a, b) = cousin_grade(b, a).
C8_Symmetric ==
    Len(returned) = 2 =>
        /\ returned[2].a = returned[1].b /\ returned[2].b = returned[1].a
        /\ returned[1].value = returned[2].value

\* C8 witness: both orders were evaluated for two persons with different ancestor sets
C8_Witness ==
    /\ Len(returned) = 2
    /\ returned[1].a # returned[1].b
    /\ Ancestors(returned[1].a) # Ancestors(returned[1].b)
    /\ returned[1].value >= 1

\* C9: divorce raises ValueError whenever self is not married to other_person.
C9_DivorceRaisesWhenNotMarried ==
    [][\A a, b \in Objs :
          (divorce(a, b) /\ married_to[a] # b) => last'.raised = "ValueError"]_vars

MarriedWellFormed ==
    \A x \in Adults :
        /\ married_to[x] # x
        /\ married_to[x] # None =>
              /\ married_to[x] \in Adults
              /\ married_to[married_to[x]] = x
              /\ sex[married_to[x]] # sex[x]
        /\ \A y \in Adults : (married_to[y] # None /\ married_to[y] = married_to[x]) => y = x

\* C10: in every reachable state nobody is married to themselves, nobody has two
\* spouses, married_to is symmetric and spouses differ in sex; a marriage call that
\* raises ValueError leaves married_to unchanged.
C10_MarriageWellFormed ==
    /\ []MarriedWellFormed
    /\ [][(last'.op = "marriage" /\ last'.raised = "ValueError") => married_to' = married_to]_vars

\* C10 witness: a marriage has been refused while some couple is married
C10_Witness ==
    /\ last.op = "marriage" /\ last.raised = "ValueError"
    /\ \E x \in Adults : married_to[x] # None

====
